---- MODULE Spec2Model ----
(***************************************************************************)
(* TCP handshake verifier: the FiniteStateMachine and ProtocolVerifier of  *)
(* automata.py and the Flask routes of server.py that share one verifier.  *)
(***************************************************************************)
EXTENDS Integers, Sequences, FiniteSets, TLC

VARIABLES current_state, history, call, ret, pc, entry, threads, lock

vars == <<current_state, history, call, ret, pc, entry, threads, lock>>

(* ------------------------------ bounds --------------------------------- *)

\* longest packet list, beyond the catalogued examples, passed to a verify
\* call between other calls
MaxLen == 2
\* longest packet list verified on a freshly constructed verifier
MaxSeqLen == 5
\* longest history built by single-step calls
MaxHistory == 3
\* longest packet list, beyond the catalogued examples, of a concurrent request
MaxThreadLen == 2

\* the four protocol tokens and one string that is not one of them
Symbols == {"LISTEN", "SYN", "SYN-ACK", "ACK", "INVALID"}

Seqs(n) == UNION {[1..k -> Symbols] : k \in 0..n}

(* --------------------------- automata.py ------------------------------- *)

\* a Python dict built from its items in insertion order (a later item wins)
dict(items) ==
    [k \in {items[i][1] : i \in DOMAIN items} |->
        items[CHOOSE i \in DOMAIN items :
                 /\ items[i][1] = k
                 /\ \A j \in DOMAIN items : items[j][1] = k => j <= i][2]]

states_items ==
    << <<"CLOSED", 0>>, <<"LISTEN", 1>>, <<"SYN_SENT", 2>>,
       <<"SYN_RECEIVED", 3>>, <<"ESTABLISHED", 4>>, <<"ERROR", 5>> >>

states == dict(states_items)

state_names == dict([i \in DOMAIN states_items |->
                        <<states_items[i][2], states_items[i][1]>>])

\* the table with a rule that leads out of ERROR
transitions_items_from_error ==
    << << <<states["CLOSED"], "LISTEN">>, states["LISTEN"] >>,
       << <<states["LISTEN"], "SYN">>, states["SYN_RECEIVED"] >>,
       << <<states["SYN_RECEIVED"], "SYN-ACK">>, states["SYN_RECEIVED"] >>,
       << <<states["SYN_RECEIVED"], "ACK">>, states["ESTABLISHED"] >>,
       << <<states["CLOSED"], "SYN">>, states["SYN_SENT"] >>,
       << <<states["SYN_SENT"], "SYN-ACK">>, states["ESTABLISHED"] >>,
       << <<states["ERROR"], "LISTEN">>, states["LISTEN"] >> >>

\* the table with a rule that names ERROR as its target
transitions_items_to_error ==
    << << <<states["CLOSED"], "LISTEN">>, states["LISTEN"] >>,
       << <<states["LISTEN"], "SYN">>, states["SYN_RECEIVED"] >>,
       << <<states["SYN_RECEIVED"], "SYN-ACK">>, states["SYN_RECEIVED"] >>,
       << <<states["SYN_RECEIVED"], "ACK">>, states["ESTABLISHED"] >>,
       << <<states["CLOSED"], "SYN">>, states["SYN_SENT"] >>,
       << <<states["SYN_SENT"], "SYN-ACK">>, states["ESTABLISHED"] >>,
       << <<states["LISTEN"], "ACK">>, states["ERROR"] >> >>

\* the table with a rule that keeps ESTABLISHED on a further ACK
transitions_items_established_ack ==
    << << <<states["CLOSED"], "LISTEN">>, states["LISTEN"] >>,
       << <<states["LISTEN"], "SYN">>, states["SYN_RECEIVED"] >>,
       << <<states["SYN_RECEIVED"], "SYN-ACK">>, states["SYN_RECEIVED"] >>,
       << <<states["SYN_RECEIVED"], "ACK">>, states["ESTABLISHED"] >>,
       << <<states["CLOSED"], "SYN">>, states["SYN_SENT"] >>,
       << <<states["SYN_SENT"], "SYN-ACK">>, states["ESTABLISHED"] >>,
       << <<states["ESTABLISHED"], "ACK">>, states["ESTABLISHED"] >> >>

\* the table with a target that is the number of no state
transitions_items_unknown_target ==
    << << <<states["CLOSED"], "LISTEN">>, states["LISTEN"] >>,
       << <<states["LISTEN"], "SYN">>, states["SYN_RECEIVED"] >>,
       << <<states["SYN_RECEIVED"], "SYN-ACK">>, states["SYN_RECEIVED"] >>,
       << <<states["SYN_RECEIVED"], "ACK">>, states["ESTABLISHED"] >>,
       << <<states["CLOSED"], "SYN">>, states["SYN_SENT"] >>,
       << <<states["SYN_SENT"], "SYN-ACK">>, states["ERROR"] + 1 >> >>

\* the table without the SYN-ACK loop on SYN_RECEIVED
transitions_items_no_loop ==
    << << <<states["CLOSED"], "LISTEN">>, states["LISTEN"] >>,
       << <<states["LISTEN"], "SYN">>, states["SYN_RECEIVED"] >>,
       << <<states["SYN_RECEIVED"], "ACK">>, states["ESTABLISHED"] >>,
       << <<states["CLOSED"], "SYN">>, states["SYN_SENT"] >>,
       << <<states["SYN_SENT"], "SYN-ACK">>, states["ESTABLISHED"] >> >>

transitions_items ==
    << << <<states["CLOSED"], "LISTEN">>, states["LISTEN"] >>,
       << <<states["LISTEN"], "SYN">>, states["SYN_RECEIVED"] >>,
       << <<states["SYN_RECEIVED"], "SYN-ACK">>, states["SYN_RECEIVED"] >>,
       << <<states["SYN_RECEIVED"], "ACK">>, states["ESTABLISHED"] >>,
       << <<states["CLOSED"], "SYN">>, states["SYN_SENT"] >>,
       << <<states["SYN_SENT"], "SYN-ACK">>, states["ESTABLISHED"] >> >>

transitions == dict(transitions_items)

\* the engine as a value: the two mutable fields of a FiniteStateMachine
fsm == [current_state |-> current_state, history |-> history]

__init__ == [current_state |-> states["CLOSED"], history |-> <<>>]

\* reset that clears the history and leaves the state as it is
reset_keeps_state(self) ==
    [self EXCEPT !.history = <<>>]

\* reset that forgets to clear the history
reset_keeps_history(self) ==
    [self EXCEPT !.current_state = states["CLOSED"]]

reset(self) ==
    [self EXCEPT !.current_state = states["CLOSED"], !.history = <<>>]

get_state_name(state) ==
    IF state \in DOMAIN state_names THEN state_names[state] ELSE "UNKNOWN"

\* transition_valid recording the new state as the state it came from
transition_valid_wrong_from(self, input_symbol) ==
    LET key == <<self.current_state, input_symbol>>
        new_state_name == get_state_name(transitions[key])
    IN  [self |-> [current_state |-> transitions[key],
                   history |-> Append(self.history,
                       [input |-> input_symbol,
                        from_state |-> new_state_name,
                        to_state |-> new_state_name,
                        valid |-> TRUE])],
         ret |-> <<TRUE, new_state_name, new_state_name,
                   <<"Valid transition", new_state_name,
                     input_symbol, new_state_name>> >>]

\* the branch of transition taken when the key is in the table
transition_valid(self, input_symbol) ==
    LET old_state == self.current_state
        old_state_name == get_state_name(old_state)
        key == <<old_state, input_symbol>>
        new_state_name == get_state_name(transitions[key])
    IN  [self |-> [current_state |-> transitions[key],
                   history |-> Append(self.history,
                       [input |-> input_symbol,
                        from_state |-> old_state_name,
                        to_state |-> new_state_name,
                        valid |-> TRUE])],
         ret |-> <<TRUE, old_state_name, new_state_name,
                   <<"Valid transition", old_state_name,
                     input_symbol, new_state_name>> >>]

\* transition_invalid leaving the engine in the state it was in
transition_invalid_stays(self, input_symbol) ==
    LET old_state == self.current_state
        old_state_name == get_state_name(old_state)
    IN  [self |-> [current_state |-> old_state,
                   history |-> Append(self.history,
                       [input |-> input_symbol,
                        from_state |-> old_state_name,
                        to_state |-> "ERROR",
                        valid |-> FALSE])],
         ret |-> <<FALSE, old_state_name, "ERROR",
                   <<"Invalid transition", old_state_name,
                     input_symbol>> >>]

\* the branch of transition taken when the key is not in the table
transition_invalid(self, input_symbol) ==
    LET old_state == self.current_state
        old_state_name == get_state_name(old_state)
    IN  [self |-> [current_state |-> states["ERROR"],
                   history |-> Append(self.history,
                       [input |-> input_symbol,
                        from_state |-> old_state_name,
                        to_state |-> "ERROR",
                        valid |-> FALSE])],
         ret |-> <<FALSE, old_state_name, "ERROR",
                   <<"Invalid transition", old_state_name,
                     input_symbol>> >>]

\* transition looking up the state its last recorded step started from
transition_stale_state(self, input_symbol) ==
    LET stale == IF self.history = <<>> THEN self
                 ELSE [self EXCEPT !.current_state =
                          states[self.history[Len(self.history)].from_state]]
        key == <<stale.current_state, input_symbol>>
    IN  IF key \in DOMAIN transitions
        THEN transition_valid(stale, input_symbol)
        ELSE transition_invalid(stale, input_symbol)

\* transition that records only the steps that fail
transition_logs_failures(self, input_symbol) ==
    LET key == <<self.current_state, input_symbol>>
    IN  IF key \in DOMAIN transitions
        THEN [transition_valid(self, input_symbol) EXCEPT
                 !.self.history = self.history]
        ELSE transition_invalid(self, input_symbol)

transition(self, input_symbol) ==
    LET key == <<self.current_state, input_symbol>>
    IN  IF key \in DOMAIN transitions
        THEN transition_valid(self, input_symbol)
        ELSE transition_invalid(self, input_symbol)

\* verify_result accepting every run that did not fail
verify_result_not_error(self, steps) ==
    LET is_valid == self.current_state # states["ERROR"]
    IN  <<is_valid, steps, get_state_name(self.current_state)>>

\* the return after the loop of verify_sequence has used every packet
verify_result(self, steps) ==
    LET is_valid == self.current_state = states["ESTABLISHED"]
    IN  <<is_valid, steps, get_state_name(self.current_state)>>

\* loop_returns that never leaves the loop early
loop_returns_never(success) == FALSE

\* the test that ends the loop of verify_sequence early
loop_returns(success) == ~success

RECURSIVE verify_loop(_, _, _, _)
\* the for loop of verify_sequence, from its i-th packet on
verify_loop(self, steps, packet_sequence, i) ==
    IF i > Len(packet_sequence)
    THEN [self |-> self, ret |-> verify_result(self, steps)]
    ELSE LET packet == packet_sequence[i]
             t == transition(self, packet)
             steps2 == Append(steps, [packet |-> packet,
                                      old_state |-> t.ret[2],
                                      new_state |-> t.ret[3],
                                      valid |-> t.ret[1],
                                      message |-> t.ret[4]])
         IN  IF loop_returns(t.ret[1])
             THEN [self |-> t.self,
                   ret |-> <<FALSE, steps2,
                             get_state_name(t.self.current_state)>>]
             ELSE verify_loop(t.self, steps2, packet_sequence, i + 1)

\* verify_sequence whose loop starts at the second packet
verify_sequence_skips_first(self, packet_sequence) ==
    verify_loop(reset(self), <<>>, packet_sequence, 2)

\* verify_sequence that starts from the state the engine was left in
verify_sequence_no_reset(self, packet_sequence) ==
    verify_loop(self, <<>>, packet_sequence, 1)

verify_sequence(self, packet_sequence) ==
    verify_loop(reset(self), <<>>, packet_sequence, 1)

\* get_all_transitions naming the state the engine is in as every source
get_all_transitions_from_current ==
    [n \in DOMAIN transitions_items |->
        [from |-> get_state_name(current_state),
         to |-> get_state_name(transitions_items[n][2]),
         label |-> transitions_items[n][1][2]]]

get_all_transitions ==
    [n \in DOMAIN transitions_items |->
        [from |-> get_state_name(transitions_items[n][1][1]),
         to |-> get_state_name(transitions_items[n][2]),
         label |-> transitions_items[n][1][2]]]

verify_tcp_handshake(self, packets) ==
    LET v == verify_sequence(self, packets)
    IN  [self |-> v.self,
         ret |-> [valid |-> v.ret[1],
                  steps |-> v.ret[2],
                  final_state |-> v.ret[3],
                  message |-> IF v.ret[1] THEN "Valid TCP handshake"
                                          ELSE "Invalid packet sequence"]]

get_transition_diagram ==
    [states |-> [i \in DOMAIN states_items |-> states_items[i][1]],
     transitions |-> get_all_transitions,
     initial_state |-> "CLOSED",
     accepting_states |-> <<"ESTABLISHED">>]

(* ----------------------------- server.py ------------------------------- *)

\* dict.get: the value under key, or the default when the key is absent
get(data, key, default) ==
    IF key \in DOMAIN data THEN data[key] ELSE default

\* the /api/verify route resetting the engine before it looks at the packets
server_verify_sequence_resets_first(self, packets) ==
    IF packets = <<>>
    THEN [self |-> reset(self),
          ret |-> <<[error |-> "No packets provided"], 400>>]
    ELSE LET r == verify_tcp_handshake(reset(self), packets)
         IN  [self |-> r.self, ret |-> <<r.ret, 200>>]

\* POST /api/verify
server_verify_sequence(self, packets) ==
    IF packets = <<>>
    THEN [self |-> self, ret |-> <<[error |-> "No packets provided"], 400>>]
    ELSE LET r == verify_tcp_handshake(reset(self), packets)
         IN  [self |-> r.self, ret |-> <<r.ret, 200>>]

\* GET /api/diagram
get_diagram == <<get_transition_diagram, 200>>

\* POST /api/step
step_transition(self, input_symbol) ==
    IF input_symbol = ""
    THEN [self |-> self, ret |-> <<[error |-> "No input provided"], 400>>]
    ELSE LET t == transition(self, input_symbol)
         IN  [self |-> t.self,
              ret |-> <<[success |-> t.ret[1], old_state |-> t.ret[2],
                         new_state |-> t.ret[3], message |-> t.ret[4]], 200>>]

\* POST /api/reset
reset_fsm(self) ==
    LET r == reset(self)
    IN  [self |-> r,
         ret |-> <<[success |-> TRUE,
                    current_state |-> get_state_name(r.current_state),
                    message |-> "FSM reset to initial state"], 200>>]

\* GET /api/examples
get_examples ==
    [valid_sequences |-> << <<"LISTEN", "SYN", "ACK">>,
                            <<"SYN", "SYN-ACK">> >>,
     invalid_sequences |-> << <<"LISTEN", "ACK">>,
                              <<"ACK", "SYN", "LISTEN">>,
                              <<"LISTEN", "INVALID", "SYN">> >>]

(* ------------------------------ actions -------------------------------- *)

\* the packet lists of the example catalog
ExampleSeqs ==
    {get_examples.valid_sequences[n] :
        n \in DOMAIN get_examples.valid_sequences}
    \cup {get_examples.invalid_sequences[n] :
             n \in DOMAIN get_examples.invalid_sequences}

\* the request threads of the server that share the one verifier
Threads == {1, 2}

NoThread == 0

\* a thread that serves no request
NoRequest ==
    [pc |-> "none", packets |-> <<>>, i |-> 1, steps |-> <<>>,
     result |-> <<>>, disturbed |-> FALSE]

\* the packet lists verified: every short one and the catalogued examples
Inputs == Seqs(MaxLen) \cup ExampleSeqs

\* the kind of state the engine is in: the sink, the accepting state, or
\* one of the states of a handshake still under way
Class(state) ==
    IF state = states["ERROR"] THEN "error"
    ELSE IF state = states["ESTABLISHED"] THEN "accepting"
    ELSE "pending"

Init ==
    /\ current_state = __init__.current_state
    /\ history = __init__.history
    /\ call = [op |-> "__init__"]
    /\ ret = <<>>
    /\ pc = "idle"
    /\ entry = Class(current_state)
    /\ threads = [t \in Threads |-> NoRequest]
    /\ lock = NoThread

\* a handler ran to completion: r is its [self, ret] pair
Returns(c, r) ==
    /\ pc = "idle"
    /\ current_state' = r.self.current_state
    /\ history' = r.self.history
    /\ call' = c
    /\ ret' = r.ret
    /\ pc' = "idle"
    /\ entry' = Class(current_state)
    /\ UNCHANGED <<threads, lock>>

Reset ==
    Returns([op |-> "reset"], [self |-> reset(fsm), ret |-> <<>>])

Transition ==
    \E input_symbol \in Symbols :
        /\ Len(history) < MaxHistory
        /\ Returns([op |-> "transition", input_symbol |-> input_symbol],
                   transition(fsm, input_symbol))

VerifySequence ==
    \E packet_sequence \in Inputs :
        Returns([op |-> "verify_sequence", packets |-> packet_sequence],
                verify_sequence(fsm, packet_sequence))

VerifyTcpHandshake ==
    \E packets \in Inputs :
        Returns([op |-> "verify_tcp_handshake", packets |-> packets],
                verify_tcp_handshake(fsm, packets))

GetTransitionDiagram ==
    Returns([op |-> "get_transition_diagram"],
            [self |-> fsm, ret |-> get_transition_diagram])

\* the JSON bodies posted to /api/verify: with a packet list, or without one
VerifyBodies == {[packets |-> p] : p \in Inputs} \cup {[other |-> TRUE]}

ApiVerify ==
    \E data \in VerifyBodies :
        LET packets == get(data, "packets", <<>>)
        IN  Returns([op |-> "/api/verify", packets |-> packets, data |-> data],
                    server_verify_sequence(fsm, packets))

ApiDiagram ==
    Returns([op |-> "/api/diagram"], [self |-> fsm, ret |-> get_diagram])

\* the JSON bodies posted to /api/step: with an input, or without one
StepBodies == {[input |-> x] : x \in Symbols \cup {""}} \cup {[other |-> TRUE]}

ApiStep ==
    \E data \in StepBodies :
        LET input_symbol == get(data, "input", "")
        IN  /\ Len(history) < MaxHistory
            /\ Returns([op |-> "/api/step", input_symbol |-> input_symbol,
                        data |-> data],
                       step_transition(fsm, input_symbol))

ApiReset ==
    Returns([op |-> "/api/reset"], reset_fsm(fsm))

Next ==
    \/ Reset
    \/ Transition
    \/ VerifySequence
    \/ VerifyTcpHandshake
    \/ GetTransitionDiagram
    \/ ApiVerify
    \/ ApiDiagram
    \/ ApiStep
    \/ ApiReset

Spec == Init /\ [][Next]_vars

(* one verify_sequence call on a freshly constructed engine *)

InitFresh ==
    /\ current_state = __init__.current_state
    /\ history = __init__.history
    /\ call \in {[op |-> "verify_sequence", packets |-> s] :
                    s \in Seqs(MaxSeqLen)}
    /\ ret = <<>>
    /\ pc = "called"
    /\ entry = Class(current_state)
    /\ threads = [t \in Threads |-> NoRequest]
    /\ lock = NoThread

RunVerifySequence ==
    /\ pc = "called"
    /\ LET r == verify_sequence(fsm, call.packets)
       IN  /\ current_state' = r.self.current_state
           /\ history' = r.self.history
           /\ ret' = r.ret
    /\ pc' = "idle"
    /\ entry' = Class(current_state)
    /\ UNCHANGED <<threads, lock>>
    /\ UNCHANGED call

NextFresh == RunVerifySequence

SpecFresh == InitFresh /\ [][NextFresh]_vars

(* ------------- /api/verify requests served by concurrent threads ------- *)

\* the packet lists of concurrent requests: every short one, the
\* catalogued examples and a list that is rejected when verified alone
ThreadInputs == Seqs(MaxThreadLen) \cup ExampleSeqs \cup {<<"SYN", "ACK">>}

\* the dictionary verify_tcp_handshake builds from what verify_sequence returns
handshake_report(is_valid, steps, final_state) ==
    [valid |-> is_valid,
     steps |-> steps,
     final_state |-> final_state,
     message |-> IF is_valid THEN "Valid TCP handshake"
                             ELSE "Invalid packet sequence"]

\* thread t wrote the engine: the threads in the middle of a verification
\* have been disturbed
Disturbs(t, th) ==
    [u \in Threads |->
        IF u # t /\ th[u].pc \in {"verify", "loop"}
        THEN [th[u] EXCEPT !.disturbed = TRUE]
        ELSE th[u]]

InitThreads ==
    /\ current_state = __init__.current_state
    /\ history = __init__.history
    /\ call = [op |-> "__init__"]
    /\ ret = <<>>
    /\ pc = "idle"
    /\ entry = Class(current_state)
    /\ threads \in [Threads -> {[NoRequest EXCEPT !.pc = "route", !.packets = p] :
                                   p \in ThreadInputs}]
    /\ lock = NoThread

\* the route finds no packets and answers 400 without calling the verifier
ThreadReject(t) ==
    /\ threads[t].pc = "route"
    /\ threads[t].packets = <<>>
    /\ threads' = [threads EXCEPT
                      ![t].pc = "done",
                      ![t].result = <<[error |-> "No packets provided"], 400>>]
    /\ UNCHANGED <<current_state, history, call, ret, pc, entry>>

\* the route resets the shared engine before it calls the verifier
ThreadRouteReset(t) ==
    /\ threads[t].pc = "route"
    /\ threads[t].packets # <<>>
    /\ LET r == reset(fsm)
       IN  /\ current_state' = r.current_state
           /\ history' = r.history
    /\ threads' = [Disturbs(t, threads) EXCEPT ![t].pc = "verify"]
    /\ UNCHANGED <<call, ret, pc, entry>>

\* verify_sequence starts: it resets the engine and empties its steps
ThreadVerifyReset(t) ==
    /\ threads[t].pc = "verify"
    /\ LET r == reset(fsm)
       IN  /\ current_state' = r.current_state
           /\ history' = r.history
    /\ threads' = [Disturbs(t, threads) EXCEPT
                      ![t].pc = "loop", ![t].steps = <<>>, ![t].i = 1]
    /\ UNCHANGED <<call, ret, pc, entry>>

\* one iteration of the loop of verify_sequence; a failed transition
\* returns from it, and the route answers with the report
ThreadStep(t) ==
    /\ threads[t].pc = "loop"
    /\ threads[t].i <= Len(threads[t].packets)
    /\ LET packet == threads[t].packets[threads[t].i]
           tr == transition(fsm, packet)
           steps2 == Append(threads[t].steps,
                            [packet |-> packet,
                             old_state |-> tr.ret[2],
                             new_state |-> tr.ret[3],
                             valid |-> tr.ret[1],
                             message |-> tr.ret[4]])
       IN  /\ current_state' = tr.self.current_state
           /\ history' = tr.self.history
           /\ threads' =
                 IF loop_returns(tr.ret[1])
                 THEN [Disturbs(t, threads) EXCEPT
                          ![t].pc = "done",
                          ![t].steps = steps2,
                          ![t].result =
                              <<handshake_report(FALSE, steps2,
                                    get_state_name(tr.self.current_state)),
                                200>>]
                 ELSE [Disturbs(t, threads) EXCEPT
                          ![t].steps = steps2,
                          ![t].i = threads[t].i + 1]
    /\ UNCHANGED <<call, ret, pc, entry>>

\* the loop has used every packet: verify_sequence reads the state the
\* engine is in now, and the route answers with the report
ThreadReturn(t) ==
    /\ threads[t].pc = "loop"
    /\ threads[t].i > Len(threads[t].packets)
    /\ LET v == verify_result(fsm, threads[t].steps)
       IN  threads' = [threads EXCEPT
                          ![t].pc = "done",
                          ![t].result =
                              <<handshake_report(v[1], v[2], v[3]), 200>>]
    /\ UNCHANGED <<current_state, history, call, ret, pc, entry>>

ThreadRuns(t) ==
    \/ ThreadReject(t)
    \/ ThreadRouteReset(t)
    \/ ThreadVerifyReset(t)
    \/ ThreadStep(t)
    \/ ThreadReturn(t)

NextThreads == \E t \in Threads : ThreadRuns(t) /\ UNCHANGED lock

SpecThreads == InitThreads /\ [][NextThreads]_vars

(* the same threads when a lock around the whole request serializes them *)

Acquire(t) ==
    /\ lock = NoThread
    /\ threads[t].pc = "route"
    /\ lock' = t
    /\ UNCHANGED <<current_state, history, call, ret, pc, entry, threads>>

Release(t) ==
    /\ lock = t
    /\ threads[t].pc = "done"
    /\ lock' = NoThread
    /\ UNCHANGED <<current_state, history, call, ret, pc, entry, threads>>

NextMutex ==
    \E t \in Threads :
        \/ Acquire(t)
        \/ lock = t /\ ThreadRuns(t) /\ UNCHANGED lock
        \/ Release(t)

SpecMutex == InitThreads /\ [][NextMutex]_vars

(* ------------------------------ claims --------------------------------- *)

AllValid(steps) == \A i \in DOMAIN steps : steps[i].valid

NonError == {"CLOSED", "LISTEN", "SYN_SENT", "SYN_RECEIVED"}

\* the engine has just returned from verify_sequence
VerifyReturned == pc = "idle" /\ call.op = "verify_sequence"

\* C1: verify_sequence returns accepted = TRUE exactly when every processed
\* step was valid and the state after the last symbol is ESTABLISHED; a run
\* whose steps are all valid and that ends elsewhere has used every symbol,
\* is not accepted and reports a final state among CLOSED, LISTEN, SYN_SENT
\* and SYN_RECEIVED, never ERROR.
C1_AcceptedIffEstablished ==
    VerifyReturned =>
        LET accepted == ret[1]
            steps == ret[2]
            final_state == ret[3]
        IN  /\ accepted <=> (/\ AllValid(steps)
                             /\ current_state = states["ESTABLISHED"]
                             /\ final_state = "ESTABLISHED")
            /\ (AllValid(steps) /\ current_state # states["ESTABLISHED"]) =>
                   /\ ~accepted
                   /\ Len(steps) = Len(call.packets)
                   /\ final_state \in NonError
                   /\ states[final_state] = current_state
            /\ ~AllValid(steps) => final_state = "ERROR"

C1_Witness ==
    /\ VerifyReturned
    /\ call.packets = <<"LISTEN", "SYN">>
    /\ AllValid(ret[2])
    /\ ret[1] = FALSE
    /\ ret[3] = "SYN_RECEIVED"

RECURSIVE Reached(_, _)
\* the state the table leads to from CLOSED after the first n symbols of seq
Reached(seq, n) ==
    IF n = 0 THEN states["CLOSED"]
    ELSE LET key == <<Reached(seq, n - 1), seq[n]>>
         IN  IF key \in DOMAIN transitions THEN transitions[key]
                                           ELSE states["ERROR"]

\* the k-th symbol of seq is the first one with no table entry
FirstMiss(seq, k) ==
    /\ <<Reached(seq, k - 1), seq[k]>> \notin DOMAIN transitions
    /\ \A j \in 1..(k - 1) : <<Reached(seq, j - 1), seq[j]>> \in DOMAIN transitions

\* C2: verify_sequence short-circuits: when the k-th symbol is the first one
\* with no table entry, exactly k steps are taken and returned, in input
\* order, only the last of them invalid, the symbols after the k-th are not
\* processed, accepted = FALSE and final_state = ERROR.
C2_ShortCircuit ==
    VerifyReturned =>
        \A k \in DOMAIN call.packets :
            FirstMiss(call.packets, k) =>
                LET steps == ret[2]
                IN  /\ Len(steps) = k
                    /\ Len(history) = k
                    /\ \A i \in 1..k : steps[i].packet = call.packets[i]
                    /\ \A i \in 1..(k - 1) : steps[i].valid
                    /\ ~steps[k].valid
                    /\ ret[1] = FALSE
                    /\ ret[3] = "ERROR"
                    /\ current_state = states["ERROR"]

C2_Witness ==
    /\ VerifyReturned
    /\ call.packets = <<"LISTEN", "INVALID", "SYN">>
    /\ Len(ret[2]) = 2
    /\ ret[3] = "ERROR"

\* the engine has just returned from a direct transition call
StepReturned == pc = "idle" /\ call.op = "transition"

\* C3: a transition call whose (current_state, symbol) pair is in the table
\* moves current_state to the mapped successor, returns valid = TRUE with
\* from = the state before the call and to = the state after it, and appends
\* exactly one history record carrying the symbol and those same values.
C3_ValidStep ==
    [][(call'.op = "transition"
          /\ <<current_state, call'.input_symbol>> \in DOMAIN transitions) =>
        LET key == <<current_state, call'.input_symbol>>
        IN  /\ current_state' = transitions[key]
            /\ ret'[1] = TRUE
            /\ ret'[2] \in DOMAIN states
            /\ states[ret'[2]] = current_state
            /\ ret'[3] \in DOMAIN states
            /\ states[ret'[3]] = current_state'
            /\ history' = Append(history, [input |-> call'.input_symbol,
                                           from_state |-> ret'[2],
                                           to_state |-> ret'[3],
                                           valid |-> TRUE])]_vars

C3_Witness ==
    /\ StepReturned
    /\ ret[1] = TRUE
    /\ Len(history) = 3
    /\ history[3] = [input |-> "ACK", from_state |-> "SYN_RECEIVED",
                     to_state |-> "ESTABLISHED", valid |-> TRUE]
    /\ current_state = states["ESTABLISHED"]

\* C4: transition is total: in every reachable state it returns an outcome
\* for every symbol; a call whose (current_state, symbol) pair is not in
\* the table, whether or not the symbol is a protocol token, moves
\* current_state to ERROR, returns valid = FALSE with from = the state
\* before the call and to = ERROR, and appends exactly one history record
\* with valid = FALSE and to_state = ERROR.
C4_InvalidStep ==
    [][/\ \A x \in Symbols :
             LET t == transition(fsm, x)
             IN  /\ t.ret[1] \in BOOLEAN
                 /\ t.ret[2] \in DOMAIN states
                 /\ t.ret[3] \in DOMAIN states
                 /\ t.self.current_state \in DOMAIN state_names
       /\ (call'.op = "transition"
             /\ <<current_state, call'.input_symbol>> \notin DOMAIN transitions) =>
            /\ current_state' = states["ERROR"]
            /\ ret'[1] = FALSE
            /\ ret'[2] \in DOMAIN states
            /\ states[ret'[2]] = current_state
            /\ ret'[3] = "ERROR"
            /\ ret'[4][1] = "Invalid transition"
            /\ history' = Append(history, [input |-> call'.input_symbol,
                                           from_state |-> ret'[2],
                                           to_state |-> "ERROR",
                                           valid |-> FALSE])]_vars

C4_Witness ==
    /\ StepReturned
    /\ ret[1] = FALSE
    /\ Len(history) = 3
    /\ history[2] = [input |-> "INVALID", from_state |-> "LISTEN",
                     to_state |-> "ERROR", valid |-> FALSE]
    /\ history[3] = [input |-> "SYN", from_state |-> "ERROR",
                     to_state |-> "ERROR", valid |-> FALSE]

\* the calls that run reset, directly or at the start of a verification
ResetOps == {"reset", "verify_sequence", "verify_tcp_handshake",
             "/api/verify", "/api/reset"}

\* C5: once current_state is ERROR every transition call, for any symbol,
\* returns valid = FALSE and leaves current_state = ERROR; a call after
\* which current_state is no longer ERROR is one that ran reset.
C5_Absorption ==
    [][current_state = states["ERROR"] =>
        /\ call'.op = "transition" =>
              ret'[1] = FALSE /\ current_state' = states["ERROR"]
        /\ (call'.op = "/api/step" /\ call'.input_symbol # "") =>
              ret'[1].success = FALSE /\ current_state' = states["ERROR"]
        /\ current_state' # states["ERROR"] => call'.op \in ResetOps]_vars

C5_Witness ==
    /\ StepReturned
    /\ Len(history) = 3
    /\ \A i \in 1..3 : history[i].to_state = "ERROR"
    /\ current_state = states["ERROR"]

\* C6: no table entry has ERROR as its target, a history record with
\* valid = TRUE never has to_state = ERROR, and whenever current_state is
\* ERROR the history is non-empty and its last record has valid = FALSE.
C6_ErrorOnlyByMiss ==
    /\ \A n \in DOMAIN transitions_items :
           transitions_items[n][2] # states["ERROR"]
    /\ \A key \in DOMAIN transitions : transitions[key] # states["ERROR"]
    /\ \A i \in DOMAIN history :
           history[i].valid => history[i].to_state # "ERROR"
    /\ (pc = "idle" /\ call.op \in {"transition", "verify_sequence"}) =>
           (ret[1] = TRUE => current_state # states["ERROR"])
    /\ current_state = states["ERROR"] =>
           /\ history # <<>>
           /\ history[Len(history)].valid = FALSE

C6_Witness ==
    /\ current_state = states["ERROR"]
    /\ Len(history) = 3
    /\ history[1].valid /\ history[2].valid /\ ~history[3].valid
    /\ history[3].from_state = "ESTABLISHED"

\* C7: after reset, called directly or through /api/reset and whatever
\* calls came before, current_state is CLOSED and history is empty, and a
\* second reset changes nothing: reset applied to the state a reset left
\* is that same state.
C7_ResetIdempotent ==
    (pc = "idle" /\ call.op \in {"reset", "/api/reset"}) =>
        /\ current_state = states["CLOSED"]
        /\ history = <<>>
        /\ reset(fsm) = fsm
        /\ reset(reset(fsm)) = reset(fsm)
        /\ call.op = "/api/reset" => ret[1].current_state = "CLOSED"

C7_Witness ==
    /\ pc = "idle"
    /\ call.op = "reset"
    /\ entry = "error"
    /\ ret = <<>>
    /\ current_state = states["CLOSED"]
    /\ history = <<>>

\* C8: whatever calls came before, verify_tcp_handshake(sequence) returns
\* the valid flag, steps list, final_state and message that the same call
\* returns on a freshly constructed engine, and leaves the engine as it
\* leaves a fresh one; so does /api/verify for a non-empty sequence.
C8_VerifyIndependent ==
    /\ (pc = "idle" /\ call.op = "verify_tcp_handshake") =>
           LET fresh == verify_tcp_handshake(__init__, call.packets)
           IN  /\ ret = fresh.ret
               /\ fsm = fresh.self
    /\ (pc = "idle" /\ call.op = "/api/verify" /\ call.packets # <<>>) =>
           LET fresh == verify_tcp_handshake(__init__, call.packets)
           IN  /\ ret = <<fresh.ret, 200>>
               /\ fsm = fresh.self

C8_Witness ==
    /\ pc = "idle"
    /\ call.op = "verify_tcp_handshake"
    /\ entry = "error"
    /\ call.packets = <<"LISTEN", "SYN", "ACK">>
    /\ ret.valid
    /\ ret.final_state = "ESTABLISHED"
    /\ ret.message = "Valid TCP handshake"

\* C9: when verify_sequence returns, history holds one record per returned
\* step, in order, and nothing else: the same length, and record i has the
\* input, from_state, to_state and valid of step i; a run that stopped
\* early has its failing step as the last record.
C9_HistoryMatchesSteps ==
    VerifyReturned =>
        LET steps == ret[2]
        IN  /\ Len(history) = Len(steps)
            /\ Len(history) <= Len(call.packets)
            /\ \A i \in DOMAIN steps :
                   /\ history[i].input = steps[i].packet
                   /\ history[i].input = call.packets[i]
                   /\ history[i].from_state = steps[i].old_state
                   /\ history[i].to_state = steps[i].new_state
                   /\ history[i].valid = steps[i].valid
            /\ Len(steps) < Len(call.packets) =>
                   /\ history # <<>>
                   /\ ~history[Len(history)].valid
                   /\ \A i \in 1..(Len(history) - 1) : history[i].valid

C9_Witness ==
    /\ VerifyReturned
    /\ call.packets = <<"ACK", "SYN", "LISTEN">>
    /\ Len(history) = 1
    /\ history[1] = [input |-> "ACK", from_state |-> "CLOSED",
                     to_state |-> "ERROR", valid |-> FALSE]

\* LISTEN, SYN, any number of SYN-ACK, ACK; or SYN, SYN-ACK
InLanguage(seq) ==
    \/ /\ Len(seq) >= 3
       /\ seq[1] = "LISTEN"
       /\ seq[2] = "SYN"
       /\ \A i \in 3..(Len(seq) - 1) : seq[i] = "SYN-ACK"
       /\ seq[Len(seq)] = "ACK"
    \/ seq = <<"SYN", "SYN-ACK">>

\* C10: on a fresh engine verify_sequence accepts exactly the sequences
\* LISTEN, SYN, zero or more SYN-ACK, ACK and SYN, SYN-ACK, and an accepted
\* run ends in ESTABLISHED; every valid_sequences entry of the example
\* catalog is accepted with final_state ESTABLISHED and every
\* invalid_sequences entry is not accepted with final_state ERROR.
C10_AcceptedLanguage ==
    VerifyReturned =>
        /\ ret[1] <=> InLanguage(call.packets)
        /\ ret[1] => ret[3] = "ESTABLISHED"
        /\ \A n \in DOMAIN get_examples.valid_sequences :
               call.packets = get_examples.valid_sequences[n] =>
                   ret[1] /\ ret[3] = "ESTABLISHED"
        /\ \A n \in DOMAIN get_examples.invalid_sequences :
               call.packets = get_examples.invalid_sequences[n] =>
                   ~ret[1] /\ ret[3] = "ERROR"

C10_Witness ==
    /\ VerifyReturned
    /\ call.packets = <<"LISTEN", "SYN", "SYN-ACK", "SYN-ACK", "ACK">>
    /\ ret[1]
    /\ ret[3] = "ESTABLISHED"
    /\ Len(ret[2]) = 5

\* what /api/verify answers for these packets on a freshly built verifier
Alone(packets) == server_verify_sequence(__init__, packets).ret

\* C11: with two threads serving /api/verify on the shared engine, reset
\* and transition calls interleaving, a request may get an answer other
\* than the one its packets get alone, and it gets one only if the other
\* thread wrote the engine in the middle of its verification.
C11_DiffersOnlyIfDisturbed ==
    \A t \in Threads :
        (threads[t].pc = "done" /\ threads[t].result # Alone(threads[t].packets))
            => threads[t].disturbed

\* [SYN, ACK], rejected alone, is reported accepted, and the handshake
\* LISTEN, SYN, ACK is reported not accepted
C11_Witness ==
    /\ threads[1].pc = "done"
    /\ threads[2].pc = "done"
    /\ threads[1].packets = <<"SYN", "ACK">>
    /\ Alone(threads[1].packets)[1].valid = FALSE
    /\ threads[1].result[1].valid = TRUE
    /\ threads[2].packets = <<"LISTEN", "SYN", "ACK">>
    /\ Alone(threads[2].packets)[1].valid = TRUE
    /\ threads[2].result[1].valid = FALSE

\* C12: when a lock makes each request, its resets and all its steps, one
\* critical section, every thread, whatever the order of arrival, gets the
\* answer its packets get alone on a freshly built verifier.
C12_SerializedEqualsAlone ==
    \A t \in Threads :
        threads[t].pc = "done" =>
            /\ threads[t].result = Alone(threads[t].packets)
            /\ ~threads[t].disturbed

C12_Witness ==
    /\ lock = NoThread
    /\ threads[1].pc = "done"
    /\ threads[2].pc = "done"
    /\ threads[1].packets = <<"LISTEN", "INVALID", "SYN">>
    /\ threads[1].result[1].final_state = "ERROR"
    /\ threads[2].packets = <<"LISTEN", "SYN", "ACK">>
    /\ threads[2].result[1].valid
    /\ Len(history) = 3
    /\ current_state = states["ESTABLISHED"]

\* the entries of the transition table, one per (state, symbol) pair
TableEntries ==
    {[from |-> state_names[key[1]],
      to |-> state_names[transitions[key]],
      label |-> key[2]] : key \in DOMAIN transitions}

\* the set of the elements of a list
Range(list) == {list[n] : n \in DOMAIN list}

\* C13: a get_transition_diagram or /api/diagram call leaves current_state
\* and history as they were, and whatever calls came before, the entries
\* it returns are those of the whole transition table, one entry per table
\* pair, none of them naming ERROR; get_all_transitions gives the same
\* entries in every reachable state.
C13_DiagramReadOnly ==
    [][/\ get_all_transitions' = get_all_transitions
       /\ call'.op \in {"get_transition_diagram", "/api/diagram"} =>
            LET diagram == IF call'.op = "/api/diagram" THEN ret'[1] ELSE ret'
            IN  /\ current_state' = current_state
                /\ history' = history
                /\ Range(diagram.transitions) = TableEntries
                /\ Len(diagram.transitions) = Cardinality(DOMAIN transitions)
                /\ \A e \in Range(diagram.transitions) :
                       e.from # "ERROR" /\ e.to # "ERROR"
                /\ diagram.transitions = get_all_transitions]_vars

C13_Witness ==
    /\ pc = "idle"
    /\ call.op = "get_transition_diagram"
    /\ entry = "error"
    /\ current_state = states["ERROR"]
    /\ Len(history) = 3
    /\ Range(ret.transitions) = TableEntries

\* the valid flag and the successor of a step from state S with symbol X,
\* taken by an engine that has recorded nothing
Outcome(S, X) ==
    LET t == transition([current_state |-> S, history |-> <<>>], X)
    IN  <<t.ret[1], t.self.current_state>>

\* C14: the valid flag and the successor state of a transition call, direct
\* or through /api/step, depend only on the state it is taken from and on
\* the symbol, not on the history nor on the calls that led to that state.
C14_StepDeterministic ==
    [][/\ \A X \in Symbols :
             LET t == transition(fsm, X)
             IN  <<t.ret[1], t.self.current_state>> = Outcome(current_state, X)
       /\ call'.op = "transition" =>
             <<ret'[1], current_state'>>
                 = Outcome(current_state, call'.input_symbol)
       /\ (call'.op = "/api/step" /\ call'.input_symbol # "") =>
             <<ret'[1].success, current_state'>>
                 = Outcome(current_state, call'.input_symbol)]_vars

C14_Witness ==
    /\ StepReturned
    /\ call.input_symbol = "SYN-ACK"
    /\ Len(history) = 3
    /\ history[2].to_state = "SYN_RECEIVED"
    /\ history[3].from_state = "SYN_RECEIVED"
    /\ history[3].to_state = "SYN_RECEIVED"
    /\ ret[1] = TRUE

\* some proper prefix of seq is accepted by verify_sequence
HasAcceptedProperPrefix(seq) ==
    \E n \in 0..(Len(seq) - 1) :
        verify_sequence(__init__, SubSeq(seq, 1, n)).ret[1]

\* C15: the table has no entry that starts in ESTABLISHED, so a step taken
\* from ESTABLISHED, with any symbol, is invalid and ends in ERROR, and
\* verify_sequence does not accept a sequence that has an accepted proper
\* prefix: it returns final_state = ERROR.
C15_EstablishedHasNoExit ==
    VerifyReturned =>
        /\ \A key \in DOMAIN transitions : key[1] # states["ESTABLISHED"]
        /\ \A X \in Symbols :
               Outcome(states["ESTABLISHED"], X) = <<FALSE, states["ERROR"]>>
        /\ \A k \in DOMAIN ret[2] :
               ret[2][k].old_state = "ESTABLISHED" =>
                   ~ret[2][k].valid /\ ret[2][k].new_state = "ERROR"
        /\ HasAcceptedProperPrefix(call.packets) =>
               ~ret[1] /\ ret[3] = "ERROR" /\ current_state = states["ERROR"]

C15_Witness ==
    /\ VerifyReturned
    /\ call.packets = <<"SYN", "SYN-ACK", "ACK">>
    /\ Len(ret[2]) = 3
    /\ ret[2][3].old_state = "ESTABLISHED"
    /\ ret[2][3].new_state = "ERROR"
    /\ ret[1] = FALSE
    /\ ret[3] = "ERROR"

\* the call c ran transition once
IsStepCall(c) ==
    \/ c.op = "transition"
    \/ c.op = "/api/step" /\ c.input_symbol # ""

\* list a is the beginning of list b
IsPrefix(a, b) == Len(a) <= Len(b) /\ SubSeq(b, 1, Len(a)) = a

\* C16: every transition call, valid or not, makes history one record
\* longer and leaves the earlier records as they were; a diagram call
\* leaves history unchanged; records are removed only by a call that runs
\* reset, which removes all of them: a reset leaves history empty and a
\* verification leaves only the records of its own steps.
C16_HistoryAppendOnly ==
    [][/\ IsStepCall(call') =>
             /\ Len(history') = Len(history) + 1
             /\ IsPrefix(history, history')
             /\ history'[Len(history')].input = call'.input_symbol
       /\ call'.op \in {"get_transition_diagram", "/api/diagram"} =>
             history' = history
       /\ ~IsPrefix(history, history') => call'.op \in ResetOps
       /\ call'.op \in {"reset", "/api/reset"} => history' = <<>>
       /\ (call'.op \in {"verify_sequence", "verify_tcp_handshake"}
             \/ (call'.op = "/api/verify" /\ call'.packets # <<>>)) =>
             /\ Len(history') <= Len(call'.packets)
             /\ \A n \in DOMAIN history' :
                    history'[n].input = call'.packets[n]
             /\ history' # <<>> => history'[1].from_state = "CLOSED"]_vars

C16_Witness ==
    /\ pc = "idle"
    /\ call.op = "/api/step"
    /\ Len(history) = 3
    /\ history[1].valid
    /\ ~history[2].valid
    /\ ~history[3].valid
    /\ history[3].input = call.input_symbol

\* C17: verify_sequence takes the symbols in order, each at most once: it
\* returns, after at most as many transition calls as there are symbols,
\* steps of which the i-th carries the i-th symbol, the first starts from
\* CLOSED and each later one starts from the state the one before ended in.
C17_InOrderOnce ==
    VerifyReturned =>
        LET steps == ret[2]
        IN  /\ Len(steps) <= Len(call.packets)
            /\ Len(history) <= Len(call.packets)
            /\ \A n \in DOMAIN steps : steps[n].packet = call.packets[n]
            /\ steps # <<>> => steps[1].old_state = "CLOSED"
            /\ \A n \in 2..Len(steps) :
                   steps[n].old_state = steps[n - 1].new_state
            /\ steps # <<>> =>
                   states[steps[Len(steps)].new_state] = current_state
            /\ Len(steps) < Len(call.packets) => ~steps[Len(steps)].valid

C17_Witness ==
    /\ VerifyReturned
    /\ entry = "accepting"
    /\ call.packets = <<"LISTEN", "SYN", "ACK">>
    /\ Len(ret[2]) = 3
    /\ ret[2][1].old_state = "CLOSED"
    /\ ret[2][2].old_state = "LISTEN"
    /\ ret[2][3].old_state = "SYN_RECEIVED"
    /\ ret[2][3].new_state = "ESTABLISHED"

\* C18: an /api/verify request whose packet list is empty or missing, and
\* an /api/step request whose input is empty or missing, is answered with
\* an error and status 400, and current_state and history stay as they were.
C18_EmptyInputRejected ==
    [][/\ (call'.op = "/api/verify"
             /\ get(call'.data, "packets", <<>>) = <<>>) =>
            /\ ret'[2] = 400
            /\ DOMAIN ret'[1] = {"error"}
            /\ current_state' = current_state
            /\ history' = history
       /\ (call'.op = "/api/step"
             /\ get(call'.data, "input", "") = "") =>
            /\ ret'[2] = 400
            /\ DOMAIN ret'[1] = {"error"}
            /\ current_state' = current_state
            /\ history' = history]_vars

C18_Witness ==
    /\ pc = "idle"
    /\ call.op = "/api/verify"
    /\ "packets" \notin DOMAIN call.data
    /\ ret = <<[error |-> "No packets provided"], 400>>
    /\ entry = "error"
    /\ current_state = states["ERROR"]
    /\ Len(history) = 3

\* C19: history is empty only if current_state is CLOSED; when it is not
\* empty its first record starts from CLOSED, each later record starts
\* from the state the record before it ended in, and the last record ends
\* in current_state.
C19_HistoryChain ==
    /\ history = <<>> => current_state = states["CLOSED"]
    /\ history # <<>> =>
           /\ history[1].from_state = "CLOSED"
           /\ \A n \in 2..Len(history) :
                  history[n].from_state = history[n - 1].to_state
           /\ history[Len(history)].to_state \in DOMAIN states
           /\ states[history[Len(history)].to_state] = current_state

C19_Witness ==
    /\ pc = "idle"
    /\ call.op = "/api/step"
    /\ Len(history) = 3
    /\ history[1].to_state = "LISTEN"
    /\ history[2].to_state = "SYN_RECEIVED"
    /\ history[3].to_state = "ESTABLISHED"
    /\ current_state = states["ESTABLISHED"]

StateNames ==
    {"CLOSED", "LISTEN", "SYN_SENT", "SYN_RECEIVED", "ESTABLISHED", "ERROR"}

RECURSIVE ReachedWithin(_)
\* the states transition leads to from CLOSED in at most n steps
ReachedWithin(n) ==
    IF n = 0 THEN {states["CLOSED"]}
    ELSE LET before == ReachedWithin(n - 1)
         IN  before \cup {Outcome(S, X)[2] : S \in before, X \in Symbols}

\* C20: current_state is always the number of one of the six states, every
\* from_state, to_state and final_state that transition and verify_sequence
\* report or record is one of the six names, never UNKNOWN, and each of
\* LISTEN, SYN_SENT, SYN_RECEIVED, ESTABLISHED and ERROR is reached from
\* CLOSED by transition calls.
C20_TypeInvariant ==
    /\ DOMAIN states = StateNames
    /\ current_state \in {states[name] : name \in StateNames}
    /\ get_state_name(current_state) \in StateNames
    /\ \A n \in DOMAIN history :
           history[n].from_state \in StateNames
           /\ history[n].to_state \in StateNames
    /\ (pc = "idle" /\ call.op = "transition") =>
           ret[2] \in StateNames /\ ret[3] \in StateNames
    /\ (pc = "idle" /\ call.op = "/api/step" /\ call.input_symbol # "") =>
           ret[1].old_state \in StateNames /\ ret[1].new_state \in StateNames
    /\ (pc = "idle" /\ call.op = "verify_sequence") =>
           /\ ret[3] \in StateNames
           /\ \A n \in DOMAIN ret[2] :
                  ret[2][n].old_state \in StateNames
                  /\ ret[2][n].new_state \in StateNames
    /\ (pc = "idle" /\ call.op = "verify_tcp_handshake") =>
           ret.final_state \in StateNames
    /\ {states[name] : name \in StateNames} \subseteq ReachedWithin(3)

C20_Witness ==
    /\ StepReturned
    /\ call.input_symbol = "SYN"
    /\ ret = <<TRUE, "CLOSED", "SYN_SENT",
               <<"Valid transition", "CLOSED", "SYN", "SYN_SENT">> >>
    /\ current_state = states["SYN_SENT"]
    /\ entry = "pending"
    /\ Len(history) = 1

====
